---- MODULE Spec2Model ----
(***************************************************************************)
(* Model of starlette_admin/statics/js/search_builder_conditions.js: the   *)
(* condition registry handed to DataTables SearchBuilder, its two helpers  *)
(* (get_field_choices, createSelectDropdown), the four array conditions    *)
(* that render a <select>, and noInputCondition.                           *)
(*                                                                         *)
(* JavaScript values are tagged records, strings are sequences of UTF-16   *)
(* code units, so that String(x), Array.prototype.sort()'s default order   *)
(* and jQuery's .val()/.text() are computed rather than assumed.           *)
(***************************************************************************)
EXTENDS Integers, Sequences, FiniteSets, TLC

\* ------------------------------------------------------------------ bounds
MaxChoices == 2   \* longest choice list of a field
MaxFields == 2    \* longest fields_config (lookup specification)
MaxChanges == 3   \* selection changes followed per control
MaxInits == 2     \* no-input inits followed
MaxDraws == 2     \* draw events followed

\* ------------------------------------------------------- JavaScript values
Str(s) == [t |-> "string", s |-> s]
Num(n) == [t |-> "number", n |-> n]
Bool(b) == [t |-> "boolean", b |-> b]
Arr(items) == [t |-> "array", items |-> items]
Undefined == [t |-> "undefined"]

\* a completed call: a returned value, or a thrown error
Return(v) == [fault |-> "none", value |-> v]
Throw(e) == [fault |-> e, value |-> Undefined]

RECURSIVE Digits(_)
\* Number::toString for a non-negative integer: its decimal digits
Digits(n) == IF n < 10 THEN <<48 + n>> ELSE Digits(n \div 10) \o <<48 + (n % 10)>>

\* String(x) as the DOM setters and Array.prototype.join apply it
StringOf(x) ==
    CASE x.t = "string" -> x.s
      [] x.t = "number" -> Digits(x.n)
      [] x.t = "undefined" -> <<>>

\* Array.prototype.toString of a [value, label] pair: join(",")
ArrayStringOf(item) == StringOf(item[1]) \o <<44>> \o StringOf(item[2])

RECURSIVE StrLess(_, _)
\* a < b on strings: lexicographic on code units
StrLess(a, b) ==
    IF b = <<>> THEN FALSE
    ELSE IF a = <<>> THEN TRUE
    ELSE IF Head(a) # Head(b) THEN Head(a) < Head(b)
    ELSE StrLess(Tail(a), Tail(b))

RECURSIVE InsertSorted(_, _)
\* x goes after every element that does not sort after it (stable)
InsertSorted(sorted, x) ==
    IF sorted = <<>> THEN <<x>>
    ELSE IF StrLess(ArrayStringOf(x), ArrayStringOf(Head(sorted)))
         THEN <<x>> \o sorted
         ELSE <<Head(sorted)>> \o InsertSorted(Tail(sorted), x)

RECURSIVE SortFrom(_, _)
SortFrom(done, rest) ==
    IF rest = <<>> THEN done ELSE SortFrom(InsertSorted(done, Head(rest)), Tail(rest))

\* Array.from(values).sort(): a sorted copy, default comparator (String order)
ArrayFromSort(values) == SortFrom(<<>>, values)

\* --------------------------------------------------------------- helpers
RECURSIVE get_field_choices_last(_, _)
get_field_choices_last(field_name, fields_cfg) ==
    IF fields_cfg = <<>> THEN Undefined
    ELSE LET later == get_field_choices_last(field_name, Tail(fields_cfg))
         IN IF later # Undefined THEN later
            ELSE IF Head(fields_cfg).name = field_name THEN Head(fields_cfg).choices
            ELSE Undefined

RECURSIVE get_field_choices(_, _)
\* for (const item of fields_config) if (item.name == field_name) return item.choices
\* falling off the loop returns undefined
get_field_choices(field_name, fields_cfg) ==
    IF fields_cfg = <<>> THEN Undefined
    ELSE IF Head(fields_cfg).name = field_name THEN Head(fields_cfg).choices
    ELSE get_field_choices(field_name, Tail(fields_cfg))

\* $('<option value="">Select</option>')
SentinelOption == [value |-> <<>>, text |-> <<83, 101, 108, 101, 99, 116>>]

\* $('<option>').val(item[0]).text(item[1]): both setters store String(x)
MakeOption(item) == [value |-> StringOf(item[1]), text |-> StringOf(item[2])]

\* the <select> inside the wrapper <div>; a single select shows its first
\* option as selected until the user picks another (selected counts from 1)
NewSelect(items) ==
    [options |-> <<SentinelOption>> \o [i \in 1..Len(items) |-> MakeOption(items[i])],
     selected |-> 1]

createSelectDropdown_unsorted(that, values) ==
    IF values = Undefined THEN Throw("TypeError") ELSE Return(NewSelect(values.items))

\* Array.from(undefined) throws a TypeError before anything is appended;
\* the styling classes taken from that.classes do not bear on any option
createSelectDropdown(that, values) ==
    IF values = Undefined THEN Throw("TypeError")
    ELSE Return(NewSelect(ArrayFromSort(values.items)))

\* ------------------------------------------------------ array conditions
ArrayConditions == {"equal", "notEqual", "contains", "notContains"}

\* $(el).on('change', function () { fn(that, this); })
ChangeListener(that, fn) == [event |-> "change", fn |-> fn, that |-> that]

array_init_unbound(that, fn, fields_cfg) ==
    LET values == get_field_choices(that.origData, fields_cfg)
        el == createSelectDropdown(that, values)
    IN IF el.fault # "none" THEN el
       ELSE Return([select |-> el.value, values |-> values, listeners |-> <<>>])

\* init(that, fn, opts) of equal / notEqual / contains / notContains
array_init(that, fn, fields_cfg) ==
    LET values == get_field_choices(that.origData, fields_cfg)
        el == createSelectDropdown(that, values)
    IN IF el.fault # "none" THEN el
       ELSE Return([select |-> el.value, values |-> values,
                    listeners |-> <<ChangeListener(that, fn)>>])

\* $(el[0]).find('select').val(): the value of the selected option
SelectVal(select) == select.options[select.selected].value

array_inputValue_label(select) == select.options[select.selected].text

array_inputValue(select) == SelectVal(select)

array_isInputValid_position(select) == select.selected > 1

array_isInputValid(select) == Len(SelectVal(select)) > 0

\* ------------------------------------------------------ noInputCondition
Methods == {"conditionName", "init", "inputValue", "isInputValid"}

\* what the host's dt.i18n(key) answers: the localized text of key
I18n(key) == [t |-> "i18n", key |-> key]

\* the object literal noInputCondition returns: all four callbacks
noInputCondition(translationKey) ==
    [kind |-> "noInput", key |-> translationKey, methods |-> Methods]

\* conditionName: function (dt, i18n) { return dt.i18n(translationKey); }
noInput_conditionName(translationKey) == Return(I18n(translationKey))

noInput_init_on(that, listeners) ==
    Append(listeners, [event |-> "draw.dtsb", once |-> FALSE, that |-> that])

\* init: that.s.dt.one('draw.dtsb', handler): a handler that is removed
\* when it first runs
noInput_init(that, listeners) ==
    Append(listeners, [event |-> "draw.dtsb", once |-> TRUE, that |-> that])

\* inputValue: function () { }
noInput_inputValue(args) == Return(Undefined)

noInput_isInputValid_needs_argument(args) == Return(Bool(args # <<>>))

\* isInputValid: function () { return true; }
noInput_isInputValid(args) == Return(Bool(TRUE))

\* ---------------------------------------------------------------- registry
\* return {};  // Use default DataTables implementation
EmptyDescriptor == [kind |-> "empty", key |-> "", methods |-> {}]

\* the object literal of equal / notEqual / contains / notContains
arrayCondition(translationKey) ==
    [kind |-> "array", key |-> translationKey, methods |-> Methods]

StringConditions ==
    {"equal", "notEqual", "contains", "notContains", "startsWith", "notStartsWith",
     "endsWith", "notEndsWith", "empty", "notEmpty"}

NumberConditions ==
    {"equal", "notEqual", "greaterThan", "greaterThanOrEqual", "lessThan",
     "lessThanOrEqual", "between", "notBetween", "empty", "notEmpty"}

DateConditions == NumberConditions

BooleanConditions == {"true", "false", "empty", "notEmpty"}

registry_array(C) ==
    CASE C = "equal" -> arrayCondition("searchBuilder.conditions.array.equals")
      [] C = "notEqual" -> arrayCondition("searchBuilder.conditions.array.not")
      [] C = "contains" -> arrayCondition("searchBuilder.conditions.array.contains")
      [] C = "notContains" -> arrayCondition("searchBuilder.conditions.array.notContains")
      [] C = "empty" -> noInputCondition("searchBuilder.conditions.array.empty")
      [] C = "notEmpty" -> noInputCondition("searchBuilder.conditions.array.notEmpty")

registry_string_all_no_input(C) ==
    IF C = "notEmpty" THEN noInputCondition("starlette-admin.conditions.notEmpty")
    ELSE noInputCondition("starlette-admin.conditions.empty")

registry_string(C) ==
    CASE C = "empty" -> noInputCondition("starlette-admin.conditions.empty")
      [] C = "notEmpty" -> noInputCondition("starlette-admin.conditions.notEmpty")
      [] OTHER -> EmptyDescriptor

registry_number(C) ==
    CASE C = "empty" -> noInputCondition("starlette-admin.conditions.empty")
      [] C = "notEmpty" -> noInputCondition("starlette-admin.conditions.notEmpty")
      [] OTHER -> EmptyDescriptor

registry_date(C) ==
    CASE C = "empty" -> noInputCondition("starlette-admin.conditions.empty")
      [] C = "notEmpty" -> noInputCondition("starlette-admin.conditions.notEmpty")
      [] OTHER -> EmptyDescriptor

registry_boolean(C) ==
    CASE C = "true" -> noInputCondition("starlette-admin.conditions.true")
      [] C = "false" -> noInputCondition("starlette-admin.conditions.false")
      [] C = "empty" -> noInputCondition("starlette-admin.conditions.empty")
      [] C = "notEmpty" -> noInputCondition("starlette-admin.conditions.notEmpty")

\* the (type, condition) pairs the returned object defines
RegistryEntries ==
    ({"array"} \X (ArrayConditions \cup {"empty", "notEmpty"}))
        \cup ({"string"} \X StringConditions)
        \cup ({"number"} \X NumberConditions)
        \cup ({"date"} \X DateConditions)
        \cup ({"boolean"} \X BooleanConditions)

\* SearchBuilderConditions[T][C](): the descriptor the factory builds
Registry(T, C) ==
    CASE T = "array" -> registry_array(C)
      [] T = "string" -> registry_string(C)
      [] T = "number" -> registry_number(C)
      [] T = "date" -> registry_date(C)
      [] T = "boolean" -> registry_boolean(C)

\* descriptor.m(...args) for a callback that leaves the host alone; a
\* property the object does not have is undefined, and calling it throws
Invoke(desc, m, args) ==
    IF m \notin desc.methods THEN Throw("TypeError")
    ELSE CASE m = "conditionName" -> noInput_conditionName(desc.key)
           [] m = "inputValue" -> noInput_inputValue(args)
           [] m = "isInputValid" -> noInput_isInputValid(args)

\* ------------------------------------------------------------------ state
VARIABLES
    fields_config,   \* the sequence of {name, choices} the page was rendered with
    rows,            \* per filter row: the control its array condition built
    draw_listeners,  \* handlers registered on the table's draw.dtsb event
    no_input_inits,  \* per no-input init: draws seen before it, redraws it caused
    draws,           \* draw events the table has fired
    result           \* the last call made on a registry descriptor

vars == <<fields_config, rows, draw_listeners, no_input_inits, draws, result>>

Rows == {1, 2}

\* choice pairs a field may carry: string values that need sorting, number
\* values (JSON numbers of integer enums), and an empty-string value
Pool ==
    { <<Str(<<98>>), Str(<<66>>)>>,
      <<Str(<<97>>), Str(<<65>>)>>,
      <<Num(10), Str(<<74>>)>>,
      <<Num(9), Str(<<73>>)>>,
      <<Str(<<>>), Str(<<78>>)>> }

SeqsUpTo(S, n) == UNION { [1..k -> S] : k \in 0..n }

ChoiceLists == { Arr(c) : c \in SeqsUpTo(Pool, MaxChoices) }

\* one field "status" with any choice list
Configs == { <<[name |-> "status", choices |-> c]>> : c \in ChoiceLists }

FieldNames == {"status", "tags"}
QueryNames == FieldNames \cup {"missing"}

\* [["1","Active"],["0","Inactive"]]
LookupPool ==
    { <<Str(<<49>>), Str(<<65, 99, 116, 105, 118, 101>>)>>,
      <<Str(<<48>>), Str(<<73, 110, 97, 99, 116, 105, 118, 101>>)>> }

\* one field "status" over the small pool: the page two rows share
RowsConfigs ==
    { <<[name |-> "status", choices |-> Arr(c)]>> : c \in SeqsUpTo(LookupPool, MaxChoices) }

\* several fields, names possibly repeated
LookupConfigs ==
    SeqsUpTo([name : FieldNames,
              choices : { Arr(c) : c \in SeqsUpTo(LookupPool, MaxChoices) }],
             MaxFields)

NoRow == [status |-> "none"]

NoResult == [status |-> "none"]

ArgLists == {<<>>, <<Str(<<120>>), Num(0)>>}

HostInit ==
    /\ rows = [r \in Rows |-> NoRow]
    /\ draw_listeners = <<>>
    /\ no_input_inits = <<>>
    /\ draws = 0
    /\ result = NoResult

Init == fields_config \in Configs /\ HostInit

InitRows == fields_config \in RowsConfigs /\ HostInit

InitLookup == fields_config \in LookupConfigs /\ HostInit

\* a page none of whose fields carries choices
InitHost == fields_config = <<>> /\ HostInit

\* the row the host builds around what init returned (or threw)
BuiltRow(r, cond, that, out) ==
    IF out.fault = "none"
    THEN [status |-> "control", cond |-> cond, that |-> that,
          values |-> get_field_choices(that.origData, fields_config),
          select |-> out.value.select, listeners |-> out.value.listeners,
          calls |-> <<>>, changes |-> 0, prev |-> 1]
    ELSE [status |-> "fault", cond |-> cond, that |-> that,
          values |-> get_field_choices(that.origData, fields_config),
          fault |-> out.fault]

\* fn(that, this) for every change listener bound to the wrapper of row r
Dispatch(listeners, r) ==
    [i \in 1..Len(listeners) |->
        [fn |-> listeners[i].fn, that |-> listeners[i].that, this |-> r]]

ArrayInit_sort_in_place(r, cond, field) ==
    LET that == [id |-> r, origData |-> field]
    IN /\ Registry("array", cond).kind = "array"
       /\ rows' = [rows EXCEPT ![r] =
              BuiltRow(r, cond, that, array_init(that, "fn", fields_config))]
       /\ fields_config' =
              [i \in 1..Len(fields_config) |->
                  IF fields_config[i].name = field
                  THEN [fields_config[i] EXCEPT !.choices = Arr(ArrayFromSort(@.items))]
                  ELSE fields_config[i]]
       /\ UNCHANGED <<draw_listeners, no_input_inits, draws, result>>

\* the host builds the row's control: condition.init(that, fn) for the
\* criteria `that` whose origData is the chosen field, replacing whatever
\* control the row had. The sort works on a copy (Array.from), so
\* fields_config keeps its order.
ArrayInit(r, cond, field) ==
    LET that == [id |-> r, origData |-> field]
    IN /\ Registry("array", cond).kind = "array"
       /\ rows' = [rows EXCEPT ![r] =
              BuiltRow(r, cond, that, array_init(that, "fn", fields_config))]
       /\ fields_config' = fields_config
       /\ UNCHANGED <<draw_listeners, no_input_inits, draws, result>>

\* the user picks another option: the select takes it and its change event
\* bubbles to the wrapper, whose listeners run. Picking the option already
\* shown changes nothing and fires no event.
Select(r, i) ==
    /\ rows[r].status = "control"
    /\ rows[r].changes < MaxChanges
    /\ i \in 1..Len(rows[r].select.options)
    /\ i # rows[r].select.selected
    /\ rows' = [rows EXCEPT ![r] =
           [@ EXCEPT !.select.selected = i,
                     !.prev = rows[r].select.selected,
                     !.changes = @ + 1,
                     !.calls = @ \o Dispatch(rows[r].listeners, r)]]
    /\ UNCHANGED <<fields_config, draw_listeners, no_input_inits, draws, result>>

\* the host (or a test) calls a callback of a descriptor that has no input
\* control; init of a no-input descriptor is NoInputInit
Call(T, C, m, args) ==
    LET desc == Registry(T, C)
    IN /\ desc.kind # "array"
       /\ m = "init" => "init" \notin desc.methods
       /\ result' = [status |-> "called", type |-> T, cond |-> C, method |-> m,
                     args |-> args, out |-> Invoke(desc, m, args)]
       /\ UNCHANGED <<fields_config, rows, draw_listeners, no_input_inits, draws>>

\* init(that) of a no-input descriptor; it returns nothing
NoInputInit(T, C) ==
    LET desc == Registry(T, C)
        that == Len(no_input_inits) + 1
    IN /\ desc.kind = "noInput"
       /\ Len(no_input_inits) < MaxInits
       /\ draw_listeners' = noInput_init(that, draw_listeners)
       /\ no_input_inits' = Append(no_input_inits, [at |-> draws, redraws |-> 0])
       /\ result' = [status |-> "called", type |-> T, cond |-> C, method |-> "init",
                     args |-> <<>>, out |-> Return(Undefined)]
       /\ UNCHANGED <<fields_config, rows, draws>>

\* the table fires draw: every registered handler runs
\* that.s.topGroup.trigger('dtsb-redrawLogic'), and the one-shot ones are gone
Draw ==
    /\ draws < MaxDraws
    /\ draws' = draws + 1
    /\ no_input_inits' =
           [k \in DOMAIN no_input_inits |->
               [no_input_inits[k] EXCEPT !.redraws =
                   @ + Cardinality({i \in DOMAIN draw_listeners : draw_listeners[i].that = k})]]
    /\ draw_listeners' = SelectSeq(draw_listeners, LAMBDA l : ~l.once)
    /\ UNCHANGED <<fields_config, rows, result>>

\* one filter row over any choice list
Next ==
    \/ \E cond \in ArrayConditions, field \in QueryNames : ArrayInit(1, cond, field)
    \/ \E i \in 1..(MaxChoices + 1) : Select(1, i)

Spec == Init /\ [][Next]_vars

\* two filter rows over the same fields_config
NextRows ==
    \/ \E r \in Rows, cond \in {"equal", "notContains"}, field \in {"status", "missing"} :
           ArrayInit(r, cond, field)
    \/ \E r \in Rows, i \in 1..(MaxChoices + 1) : Select(r, i)

SpecRows == InitRows /\ [][NextRows]_vars

\* the choice lookup over several fields
NextLookup ==
    \E cond \in ArrayConditions, field \in QueryNames : ArrayInit(1, cond, field)

SpecLookup == InitLookup /\ [][NextLookup]_vars

\* the descriptors without an input control, and the table's draw events
NextHost ==
    \/ \E e \in RegistryEntries, m \in Methods, args \in ArgLists : Call(e[1], e[2], m, args)
    \/ \E e \in RegistryEntries : NoInputInit(e[1], e[2])
    \/ Draw

SpecHost == InitHost /\ [][NextHost]_vars

\* ------------------------------------------------------------------ claims
ControlRows == { r \in Rows : rows[r].status = "control" }

\* the option the row's select shows
Shown(r) == rows[r].select.options[rows[r].select.selected]

\* C1: for each of the four array conditions and in every state after init,
\* isInputValid(handle) is true exactly when the selected option's value is
\* non-empty; right after init the sentinel is selected and the control is
\* invalid, and it is invalid whenever the sentinel is selected again
C1_ValidIffValueNonEmpty ==
    \A r \in ControlRows :
        /\ rows[r].cond \in ArrayConditions
        /\ array_isInputValid(rows[r].select) <=> (Shown(r).value # <<>>)
        /\ rows[r].changes = 0 => rows[r].select.selected = 1
        /\ rows[r].select.selected = 1 =>
               /\ Shown(r).value = <<>>
               /\ Shown(r).text = <<83, 101, 108, 101, 99, 116>>
               /\ ~array_isInputValid(rows[r].select)

\* a real option was selected, then the sentinel again; and a choice whose
\* value is the empty string is selected
C1_Witness ==
    /\ rows[1].status = "control"
    /\ rows[1].changes = 2
    /\ rows[1].select.selected = 1
    /\ \E i \in 2..Len(rows[1].select.options) : rows[1].select.options[i].value = <<>>

\* every recorded call of the change callback carries the row's own context
\* and wrapper, one call per selection change
OneCallPerChange(r) ==
    /\ Len(rows[r].calls) = rows[r].changes
    /\ \A k \in DOMAIN rows[r].calls :
           rows[r].calls[k] = [fn |-> "fn", that |-> rows[r].that, this |-> r]

\* the sentinel was selected and then an option built from a choice
SentinelThenReal(r) ==
    /\ rows[r].changes >= 2
    /\ rows[r].prev = 1
    /\ rows[r].select.selected > 1

\* C2 as stated: n selection changes give n calls of onChange with the row's
\* context and control, and after the sentinel and then a real option are
\* selected isInputValid is true and inputValue is that option's value
C2_Original ==
    \A r \in ControlRows :
        /\ OneCallPerChange(r)
        /\ SentinelThenReal(r) =>
               /\ array_isInputValid(rows[r].select)
               /\ array_inputValue(rows[r].select) = Shown(r).value

\* C2 amended: n selection changes give n calls of onChange with the row's
\* context and control; after the sentinel and then a real option are
\* selected inputValue is that option's value, and isInputValid is true
\* unless that option's value is the empty string
C2_OneCallPerChange ==
    \A r \in ControlRows :
        /\ OneCallPerChange(r)
        /\ SentinelThenReal(r) =>
               /\ array_inputValue(rows[r].select) = Shown(r).value
               /\ Shown(r).value # <<>> => array_isInputValid(rows[r].select)
               /\ Shown(r).value = <<>> => ~array_isInputValid(rows[r].select)

\* a real option, the sentinel, a real option with a value: three calls
C2_Witness ==
    /\ rows[1].status = "control"
    /\ rows[1].changes = 3
    /\ Len(rows[1].calls) = 3
    /\ SentinelThenReal(1)
    /\ Shown(1).value # <<>>

\* the option whose label is the label of choice pair p is the one built from p
BuiltFrom(r, p) == Shown(r).text = StringOf(p[2])

\* C3 as stated: after the option built from the pair (v, label) is selected,
\* inputValue returns exactly v
C3_Original ==
    \A r \in ControlRows :
        \A k \in DOMAIN rows[r].values.items :
            LET p == rows[r].values.items[k]
            IN (rows[r].select.selected > 1 /\ BuiltFrom(r, p)) =>
                   Str(array_inputValue(rows[r].select)) = p[1]

\* C3 amended: after the option built from the pair (v, label) is selected,
\* inputValue returns the string String(v): v itself when v is a string, its
\* decimal text when v is a number
C3_InputValueIsStringOfValue ==
    \A r \in ControlRows :
        \A k \in DOMAIN rows[r].values.items :
            LET p == rows[r].values.items[k]
            IN (rows[r].select.selected > 1 /\ BuiltFrom(r, p)) =>
                   /\ array_inputValue(rows[r].select) = StringOf(p[1])
                   /\ p[1].t = "string" => Str(array_inputValue(rows[r].select)) = p[1]
                   /\ p[1].t = "number" => array_inputValue(rows[r].select) = Digits(p[1].n)

\* the option built from the pair (10, "J") is selected
C3_Witness ==
    /\ rows[1].status = "control"
    /\ rows[1].select.selected > 1
    /\ Shown(1) = [value |-> <<49, 48>>, text |-> <<74>>]
    /\ \E k \in DOMAIN rows[1].values.items : rows[1].values.items[k][1] = Num(10)

\* C4 as stated: init for a field name that matches no entry of fieldConfigs
\* raises no fault and returns a control whose only option is the sentinel
C4_MissingFieldSentinelOnly ==
    \A r \in Rows :
        (/\ rows[r].status # "none"
         /\ \A i \in DOMAIN fields_config : fields_config[i].name # rows[r].that.origData)
        => /\ rows[r].status = "control"
           /\ rows[r].select.options = <<[value |-> <<>>, text |-> <<83, 101, 108, 101, 99, 116>>]>>

\* positions of fields_config whose name is the field the row asked for
Matches(r) == { i \in DOMAIN fields_config : fields_config[i].name = rows[r].that.origData }

\* C5: get_field_choices returns the choices of the first entry whose name
\* is the field name, unchanged and in their order (later entries of the same
\* name are never returned), and nothing when no entry has that name
C5_FirstMatchOrNothing ==
    \A r \in Rows :
        rows[r].status # "none" =>
            IF Matches(r) = {}
            THEN rows[r].values = Undefined
            ELSE \E i \in Matches(r) :
                     /\ \A j \in Matches(r) : i <= j
                     /\ rows[r].values = fields_config[i].choices

\* two entries share the name looked up and carry different choices, the
\* first of them [["1","Active"],["0","Inactive"]]
C5_Witness ==
    /\ rows[1].status = "control"
    /\ Len(fields_config) = 2
    /\ Matches(1) = {1, 2}
    /\ fields_config[1].choices # fields_config[2].choices
    /\ fields_config[1].choices.items =
           << <<Str(<<49>>), Str(<<65, 99, 116, 105, 118, 101>>)>>,
              <<Str(<<48>>), Str(<<73, 110, 97, 99, 116, 105, 118, 101>>)>> >>

\* how often x occurs in the sequence q
Count(q, x) == Cardinality({ i \in DOMAIN q : q[i] = x })

\* the options after the sentinel
Rendered(r) == Tail(rows[r].select.options)

\* the sort key of an option: its value, a comma, its label
OptionKey(o) == o.value \o <<44>> \o o.text

SentinelFirstAndSorted(r) ==
    /\ Head(rows[r].select.options) = [value |-> <<>>, text |-> <<83, 101, 108, 101, 99, 116>>]
    /\ Len(Rendered(r)) = Len(fields_config[1].choices.items)
    /\ \A i, j \in DOMAIN Rendered(r) :
           i < j => ~StrLess(OptionKey(Rendered(r)[j]), OptionKey(Rendered(r)[i]))

\* C6 as stated: the sentinel ("", "Select") comes first, then one option per
\* entry of get_field_choices(fieldName, fieldConfigs), value the pair's first
\* element and label its second, nothing added or dropped, in the default
\* sorted order of the pairs
C6_Original ==
    \A r \in ControlRows :
        /\ SentinelFirstAndSorted(r)
        /\ LET items == fields_config[1].choices.items
               pairs == [i \in DOMAIN Rendered(r) |->
                            <<Str(Rendered(r)[i].value), Str(Rendered(r)[i].text)>>]
           IN \A p \in Pool : Count(pairs, p) = Count(items, p)

\* C6 amended: the sentinel ("", "Select") comes first, then one option per
\* entry of get_field_choices(fieldName, fieldConfigs), value the string
\* String(first element) and label the second, nothing added or dropped, in
\* the default sorted order of the pairs (by their text "value,label")
C6_SentinelThenSortedChoices ==
    \A r \in ControlRows :
        /\ SentinelFirstAndSorted(r)
        /\ LET items == fields_config[1].choices.items
               texts == [i \in DOMAIN items |->
                            [value |-> StringOf(items[i][1]), text |-> items[i][2].s]]
           IN \A p \in Pool :
                  LET o == [value |-> StringOf(p[1]), text |-> p[2].s]
                  IN Count(Rendered(r), o) = Count(texts, o)

\* [["b","B"],["a","A"]] is rendered a before b
C6_Witness ==
    /\ rows[1].status = "control"
    /\ fields_config[1].choices.items =
           << <<Str(<<98>>), Str(<<66>>)>>, <<Str(<<97>>), Str(<<65>>)>> >>
    /\ Rendered(1) = << [value |-> <<97>>, text |-> <<65>>], [value |-> <<98>>, text |-> <<66>>] >>

\* C7: each init of a no-input condition registers a one-shot draw listener:
\* init itself triggers no recompute, the first draw after it triggers the
\* host's recompute exactly once and removes the listener, and later draws
\* trigger nothing more for that init
C7_OneShotRedraw ==
    \A k \in DOMAIN no_input_inits :
        LET registered == { i \in DOMAIN draw_listeners : draw_listeners[i].that = k }
        IN IF draws = no_input_inits[k].at
           THEN no_input_inits[k].redraws = 0 /\ Cardinality(registered) = 1
           ELSE no_input_inits[k].redraws = 1 /\ registered = {}

\* two draws have followed an init, and another init still waits for its first
C7_Witness ==
    /\ \E k \in DOMAIN no_input_inits :
           draws >= no_input_inits[k].at + 2 /\ no_input_inits[k].redraws = 1
    /\ \E k \in DOMAIN no_input_inits : draws = no_input_inits[k].at

\* the (type, condition) pairs of string, number and date other than empty
\* and notEmpty
DeferredEntries ==
    ({"string"} \X (StringConditions \ {"empty", "notEmpty"}))
        \cup ({"number", "date"} \X (NumberConditions \ {"empty", "notEmpty"}))

\* this step called a callback of a descriptor of DeferredEntries
DeferredCall ==
    /\ result' # result
    /\ <<result'.type, result'.cond>> \in DeferredEntries

HostUntouched == UNCHANGED <<fields_config, rows, draw_listeners, no_input_inits, draws>>

\* C8 as stated: for string, number and date conditions other than empty and
\* notEmpty, invoking any of the descriptor's four methods is a no-op that
\* returns nothing
C8_Original ==
    [][DeferredCall => (HostUntouched /\ result'.out = Return(Undefined))]_vars

\* C8 amended: for string, number and date conditions other than empty and
\* notEmpty the descriptor has none of the four methods: an attempt to invoke
\* one changes nothing and raises a TypeError instead of returning
C8_DeferredDescriptorHasNoMethods ==
    [][DeferredCall =>
          /\ HostUntouched
          /\ result'.out = Throw("TypeError")
          /\ Registry(result'.type, result'.cond).methods = {}]_vars

\* init has been tried on number.between
C8_Witness ==
    /\ result.status = "called"
    /\ result.type = "number"
    /\ result.cond = "between"
    /\ result.method = "init"
    /\ result.out.fault = "TypeError"

\* the registry entries the specification lists as built from noInputCondition
NoInputEntries ==
    ({"array", "string", "number", "date", "boolean"} \X {"empty", "notEmpty"})
        \cup ({"boolean"} \X {"true", "false"})

\* C9: in every state, before or after init and draw events, a descriptor
\* built from noInputCondition (array.empty, array.notEmpty, string / number /
\* date / boolean empty and notEmpty, boolean.true, boolean.false) answers
\* isInputValid with true and inputValue with nothing, whatever the arguments
C9_NoInputAlwaysValid ==
    (result.status = "called" /\ <<result.type, result.cond>> \in NoInputEntries) =>
        /\ result.method = "isInputValid" => result.out = Return(Bool(TRUE))
        /\ result.method = "inputValue" => result.out = Return(Undefined)
        /\ result.out.fault = "none"

\* boolean.true was asked isInputValid without arguments after an init and a draw
C9_Witness ==
    /\ result.status = "called"
    /\ result.type = "boolean"
    /\ result.cond = "true"
    /\ result.method = "isInputValid"
    /\ result.args = <<>>
    /\ no_input_inits # <<>>
    /\ draws > 0

\* what the host reads from a row: nothing without a control
Reading(row) ==
    IF row.status = "control"
    THEN <<row.select.selected, array_isInputValid(row.select), array_inputValue(row.select)>>
    ELSE <<>>

\* C10: an init or a selection change on one row leaves every other row's
\* selected option, isInputValid and inputValue as they were, and leaves
\* fields_config, the order of each field's choices included, as it was
C10_RowsIndependent ==
    [][\A r \in Rows :
          rows'[r] # rows[r] =>
              /\ \A q \in Rows \ {r} : rows'[q] = rows[q] /\ Reading(rows'[q]) = Reading(rows[q])
              /\ fields_config' = fields_config]_vars

\* both rows were built on the same field, whose choices are not in sorted
\* order, and show different options
C10_Witness ==
    /\ \A r \in Rows : rows[r].status = "control" /\ rows[r].that.origData = "status"
    /\ rows[1].changes > 0
    /\ rows[2].changes > 0
    /\ rows[1].select.selected # rows[2].select.selected
    /\ fields_config[1].choices.items # ArrayFromSort(fields_config[1].choices.items)

====
